---- MODULE Spec2Model ----
(***************************************************************************)
(* A model of shell.c: the read loop of main, the builtins, exec_func      *)
(* (fork, the child's setpgid / signal reset / exec, the parent's terminal *)
(* handoff and wait), together with the part of the kernel the code talks  *)
(* to: the process table, process groups, the terminal's foreground group, *)
(* per-process descriptor tables and signal dispositions.                  *)
(***************************************************************************)
EXTENDS Integers, Sequences, FiniteSets, TLC

VARIABLES proc,      \* pid -> the process: kernel state and the C variables of shell.c
          tty_pgrp   \* the terminal's foreground process group (tcgetpgrp)

vars == <<proc, tty_pgrp>>

(* ------------------------------ bounds -------------------------------- *)
MaxProc == 3       \* pids 1..MaxProc exist; fork fails (EAGAIN) when none is left
NOFILE == 6        \* descriptor slots of a process (RLIMIT_NOFILE)

(* ------------------------- program constants -------------------------- *)
STDIN_FILENO == 0
STDOUT_FILENO == 1
StdSlots == 3        \* descriptors 0, 1, 2 are open when main starts
ShellPid == 1        \* the process that ran main and init_shell
Pids == 1..MaxProc

(* ------------------------------ tokens -------------------------------- *)
(* A token is a C string: a sequence of characters.  NULL is the absent    *)
(* token; no string of the model equals it.                                *)
NULL == <<"NULL">>
T_help == <<"?">>
T_exit == <<"e", "x", "i", "t">>
T_Exit == <<"E", "x", "i", "t">>
T_pwd == <<"p", "w", "d">>
T_cd == <<"c", "d">>
T_wait == <<"w", "a", "i", "t">>
T_amp == <<"&">>
T_gt == <<">">>
T_lt == <<"<">>
T_ls == <<"l", "s">>
T_absls == <<"/", "b", "/", "l", "s">>
T_no == <<"n", "o">>
T_absno == <<"/", "n", "o">>
T_f == <<"f">>
T_nofile == <<"/", "n", "/", "x">>
T_dir == <<"d">>
T_nodir == <<"n", "d">>
T_home == <<"/", "h">>
T_sh == <<"s", "h">>
T_ush == <<"/", "u", "/", "s", "h">>
T_bsh == <<"/", "b", "/", "s", "h">>

(* The environment: PATH, the executables, the files and directories.      *)
PATH == <<"/", "u", ":", "/", "b">>
Executables == {T_absls, T_ush, T_bsh}
ReadableFiles == {T_f}
WritableFiles == {T_f, T_amp}
Directories == {T_dir}

(* The lines fgets can deliver, each already split by tokenize.            *)
Lines ==
  { <<>>, <<T_help>>, <<T_exit>>, <<T_Exit>>, <<T_pwd>>, <<T_wait>>,
    <<T_cd>>, <<T_cd, T_dir>>, <<T_cd, T_nodir>>,
    <<T_ls>>, <<T_ls, T_amp>>, <<T_no>>, <<T_no, T_amp>>,
    <<T_absls>>, <<T_absno>>,
    <<T_ls, T_gt, T_f>>, <<T_ls, T_lt, T_f>>, <<T_pwd, T_gt, T_f>>,
    <<T_ls, T_gt, T_nofile>>, <<T_ls, T_lt, T_nofile>>,
    <<T_ls, T_gt, T_amp>>, <<T_no, T_gt, T_f>> }

(* ------------------------ tokenizer interface ------------------------- *)
tokens_get_length(t) == Len(t)

(* The index is a size_t: line_size - 2 on a short line wraps to a huge    *)
(* value, written here as a negative number; either way it is out of range.*)
tokens_get_token(t, i) == IF i >= 0 /\ i < Len(t) THEN t[i + 1] ELSE NULL

(* ----------------------------- processes ------------------------------ *)
Unborn ==
  [ state |-> "unborn",      \* unborn | run | zombie | reaped
    image |-> "none",        \* shell: runs main's loop; prog: an exec'd program
    pc |-> "none",
    ppid |-> 0, pgid |-> 0,
    sig |-> "DFL",           \* disposition of the job-control signals
    num_bprocesses |-> 0,
    fds |-> <<>>,            \* descriptor table: fds[n + 1] is the file of descriptor n
    std_out |-> STDOUT_FILENO, std_in |-> STDIN_FILENO,
    tokens |-> <<>>, redirect_check |-> NULL, run_in_fg |-> TRUE,
    pid |-> 0,               \* exec_func's pid (the child fork returned)
    argv |-> <<>>,           \* of an exec'd program: what execv was given
    exe |-> NULL,            \* of an exec'd program: the path execv loaded
    cause |-> "none",        \* how the process ended
    shell_is_interactive |-> FALSE,
    out_mode |-> "unset",    \* stdout's buffering: unset until the first write | line | full
    held |-> FALSE,          \* stdout's buffer holds text printed while descriptor 1 was a
                             \* redirection file
    strayed |-> FALSE,       \* such text has been written to another file than that one
    cwd |-> T_home ]

Live(P, p) == P[p].state = "run"
Interp(P, p) == Live(P, p) /\ P[p].image = "shell"
Children(P, p) == {c \in Pids : P[c].state \in {"run", "zombie"} /\ P[c].ppid = p}
Zombies(P, p) == {c \in Children(P, p) : P[c].state = "zombie"}

(* What is left of a process once it has ended.  exit() and the return    *)
(* from main flush stdout to whatever descriptor 1 is then; a signal or a  *)
(* fault does not.                                                         *)
Ended(r, st, why) ==
  [Unborn EXCEPT !.state = st, !.ppid = r.ppid, !.pgid = r.pgid, !.cause = why,
                 !.image = r.image,
                 !.strayed = \/ r.strayed
                             \/ /\ r.held /\ why \in {"exit", "eof"}
                                /\ r.fds[STDOUT_FILENO + 1] # "FILE"]

(* Process p ends.  A child whose parent is gone (ppid 0 stands for the     *)
(* launcher or init) is reaped at once; p's own children are reparented.   *)
Terminate(P, p, why) ==
  [q \in Pids |->
     IF q = p
       THEN IF P[p].ppid # 0 /\ P[P[p].ppid].state = "run"
              THEN Ended(P[p], "zombie", why)
              ELSE Ended(P[p], "reaped", why)
     ELSE IF P[q].ppid = p /\ P[q].state = "zombie"
       THEN [P[q] EXCEPT !.state = "reaped", !.ppid = 0]
     ELSE IF P[q].ppid = p /\ P[q].state = "run"
       THEN [P[q] EXCEPT !.ppid = 0]
     ELSE P[q]]

RECURSIVE TerminateAll(_, _, _)
TerminateAll(P, S, why) ==
  IF S = {} THEN P
  ELSE LET p == CHOOSE x \in S : TRUE
       IN TerminateAll(Terminate(P, p, why), S \ {p}, why)

(* ------------------------------ kernel -------------------------------- *)
GroupExists(P, g) == \E q \in Pids : P[q].state \in {"run", "zombie"} /\ P[q].pgid = g
ProcExists(P, g) == g \in Pids /\ P[g].state \in {"run", "zombie"}
Foreground(P, tty, p) == P[p].pgid = tty

(* tcsetpgrp(fd, g) called by p: the values the foreground group can have  *)
(* afterwards.  ENOTTY when fd is not the terminal.  A background caller   *)
(* that does not ignore SIGTTOU is stopped instead.  When g names a live   *)
(* process that leads no group, POSIX refuses (EPERM) and Linux accepts.   *)
Tcsetpgrp(P, tty, p, fd, g) ==
  IF P[p].fds[fd + 1] # "TTY" THEN {tty}
  ELSE IF ~Foreground(P, tty, p) /\ P[p].sig = "DFL" THEN {tty}
  ELSE IF GroupExists(P, g) THEN {g}
  ELSE IF ProcExists(P, g) THEN {tty, g}
  ELSE {tty}

(* A wait that returns at once and reaps nobody.                           *)
WaitReturningAtOnce(P, p) == {P}

(* wait(NULL) called by p: the process tables it can return with; none     *)
(* while p has children and none of them has ended (the call blocks).      *)
Wait(P, p) ==
  IF Children(P, p) = {} THEN {P}
  ELSE {[P EXCEPT ![c] = Ended(P[c], "reaped", P[c].cause)] : c \in Zombies(P, p)}

(* dup2(old, new) on r's table; EBADF leaves the table as it is.           *)
Dup2(r, old, new) ==
  IF old < 0 \/ old >= Len(r.fds) THEN r
  ELSE [r EXCEPT !.fds[new + 1] = r.fds[old + 1]]

(* fopen: the new descriptor, or -1 for a NULL FILE*.                      *)
Fopen(r, name, mode) ==
  IF Len(r.fds) < NOFILE /\ name \in (IF mode = "w" THEN WritableFiles ELSE ReadableFiles)
    THEN Len(r.fds) ELSE -1

(* dup(fd): the new descriptor, or -1 (EMFILE).                            *)
Dup(r, fd) == IF Len(r.fds) < NOFILE THEN Len(r.fds) ELSE -1

(* ------------------------------- stdio -------------------------------- *)
(* printf / fprintf(stdout, ...) of a short text.  The C library chooses   *)
(* stdout's buffering at the first write, from what descriptor 1 is then:  *)
(* line-buffered on a terminal, fully buffered otherwise.  A line-buffered *)
(* stream writes the text to descriptor 1 at its newline (the prompt, at   *)
(* the next fgets); a fully buffered one keeps it until exit, or until the *)
(* buffer has filled, which these short texts do not do.                   *)
fprintf(r) ==
  LET mode == IF r.out_mode # "unset" THEN r.out_mode
              ELSE IF r.fds[STDOUT_FILENO + 1] = "TTY" THEN "line" ELSE "full"
  IN [r EXCEPT !.out_mode = mode,
               !.held = @ \/ (mode = "full" /\ r.fds[STDOUT_FILENO + 1] = "FILE")]

(* ------------------------------- main --------------------------------- *)
(* Lines 222-234: the signals, the two look-behind tokens and run_in_fg.   *)
(* strcmp(NULL, "&") on a blank line is undefined: SIGSEGV, or any result. *)
ParseLine(r, line) ==
  LET line_size == tokens_get_length(line)
      background_check == tokens_get_token(line, line_size - 1)
      r0 == [r EXCEPT !.sig = "IGN", !.tokens = line,
                      !.redirect_check = tokens_get_token(line, line_size - 2),
                      !.std_out = STDOUT_FILENO, !.std_in = STDIN_FILENO]
  IN IF background_check = NULL
       THEN {[r0 EXCEPT !.pc = "segv_strcmp"]} \cup {[r0 EXCEPT !.run_in_fg = b] : b \in BOOLEAN}
       ELSE {[r0 EXCEPT !.run_in_fg = (background_check # T_amp)]}

(* Lines 237-242 (slot 1, ">", "w") and 243-248 (slot 0, "<", "r"): fopen, *)
(* dup of the slot into std_out / std_in, dup2 of the file onto the slot.  *)
(* fileno(NULL) is undefined: SIGSEGV, or -1 and dup2 fails.               *)
Redirect(r, slot, op, mode) ==
  IF r.pc # "read" \/ r.redirect_check # op THEN {r}
  ELSE LET file_name == tokens_get_token(r.tokens, tokens_get_length(r.tokens) - 1)
           file == Fopen(r, file_name, mode)
           r1 == IF file >= 0 THEN [r EXCEPT !.fds = Append(@, "FILE")] ELSE r
           saved == Dup(r1, slot)
           r2 == IF saved >= 0 THEN [r1 EXCEPT !.fds = Append(@, r1.fds[slot + 1])] ELSE r1
           r3 == IF slot = STDOUT_FILENO THEN [r2 EXCEPT !.std_out = saved]
                                         ELSE [r2 EXCEPT !.std_in = saved]
       IN IF file >= 0 THEN {Dup2(r3, file, slot)}
          ELSE {[r3 EXCEPT !.pc = "segv_fileno"], r3}

Redirected(r, line) ==
  UNION {Redirect(r1, STDIN_FILENO, T_lt, "r") :
           r1 \in UNION {Redirect(r0, STDOUT_FILENO, T_gt, "w") : r0 \in ParseLine(r, line)}}

(* Lines 261-270: both slots restored from std_out / std_in, the prompt,   *)
(* the tokens destroyed, back to fgets.  Nothing is closed: the            *)
(* descriptors above the standard ones stay open, and as file, std_out and *)
(* std_in go out of scope nothing refers to them any more ("LEAK").        *)
Finish(r) ==
  LET r1 == Dup2(r, r.std_out, STDOUT_FILENO)
      r2 == Dup2(r1, r1.std_in, STDIN_FILENO)
      r3 == IF r2.shell_is_interactive THEN fprintf(r2) ELSE r2
  IN [r3 EXCEPT !.pc = "read", !.tokens = <<>>, !.redirect_check = NULL,
                !.run_in_fg = TRUE, !.pid = 0,
                !.std_out = STDOUT_FILENO, !.std_in = STDIN_FILENO,
                !.fds = [n \in 1..Len(r3.fds) |-> IF n <= StdSlots THEN r3.fds[n] ELSE "LEAK"]]

cmd_table == <<T_help, T_exit, T_pwd, T_cd, T_wait>>

(* A lookup that compares without regard to case.                          *)
lookupIgnoringCase(cmd) ==
  LET low == [i \in 1..Len(cmd) |-> IF cmd[i] = "E" THEN "e" ELSE cmd[i]]
  IN IF cmd # NULL /\ \E i \in 1..Len(cmd_table) : cmd_table[i] = low
       THEN (CHOOSE i \in 1..Len(cmd_table) :
               cmd_table[i] = low /\ \A j \in 1..(i - 1) : cmd_table[j] # low) - 1
       ELSE -1

lookup(cmd) ==
  IF cmd # NULL /\ \E i \in 1..Len(cmd_table) : cmd_table[i] = cmd
    THEN (CHOOSE i \in 1..Len(cmd_table) :
            cmd_table[i] = cmd /\ \A j \in 1..(i - 1) : cmd_table[j] # cmd) - 1
    ELSE -1

cmd_help(r) == fprintf(r)

(* An exit that takes the interpreter's running children with it.          *)
cmd_exitSignallingJobs(P, p) ==
  Terminate(TerminateAll(P, {c \in Children(P, p) : Live(P, c)}, "signal"), p, "exit")

(* Lines 66-68: exit(0), on the process table.                             *)
cmd_exit(P, p) == Terminate(P, p, "exit")

cmd_pwd(r) == fprintf(r)

cmd_cd(r) ==
  IF tokens_get_length(r.tokens) = 1 THEN fprintf(r)
  ELSE LET path == tokens_get_token(r.tokens, 1)
       IN IF path \in Directories THEN [r EXCEPT !.cwd = path] ELSE fprintf(r)

(* fgets on descriptor 0.  On the terminal a background reader that does   *)
(* not ignore SIGTTIN is stopped; one that ignores it gets EIO, which ends *)
(* the loop like end of input.                                             *)
OnTty(r) == r.fds[STDIN_FILENO + 1] = "TTY"
CanReadLine(p) == OnTty(proc[p]) => Foreground(proc, tty_pgrp, p)
CanReadEnd(p) == OnTty(proc[p]) /\ ~Foreground(proc, tty_pgrp, p) => proc[p].sig = "IGN"

FreePids == {c \in Pids : proc[c].state = "unborn"}

(* A launcher that counts every spawn, foreground ones too.                *)
ForkCountingEverySpawn(p, r) ==
  \/ /\ proc' = [proc EXCEPT ![p] = Finish(fprintf(r))]
  \/ /\ FreePids # {}
     /\ LET c == CHOOSE x \in FreePids : \A y \in FreePids : x <= y
            child == [r EXCEPT !.ppid = p, !.pc = "child", !.pid = 0]
            parent == IF r.run_in_fg
                        THEN [r EXCEPT !.pid = c, !.pc = "tcsetpgrp",
                                       !.num_bprocesses = @ + 1]
                        ELSE Finish([r EXCEPT !.pid = c,
                                              !.num_bprocesses = @ + 1])
        IN proc' = [proc EXCEPT ![p] = parent, ![c] = child]

(* A launcher that hands the terminal over and waits for every child, the  *)
(* background ones too.                                                    *)
ForkWaitingForEveryChild(p, r) ==
  \/ /\ proc' = [proc EXCEPT ![p] = Finish(fprintf(r))]
  \/ /\ FreePids # {}
     /\ LET c == CHOOSE x \in FreePids : \A y \in FreePids : x <= y
            child == [r EXCEPT !.ppid = p, !.pc = "child", !.pid = 0]
            parent == [r EXCEPT !.pid = c, !.pc = "tcsetpgrp",
                                !.num_bprocesses = IF r.run_in_fg THEN @ ELSE @ + 1]
        IN proc' = [proc EXCEPT ![p] = parent, ![c] = child]

(* exec_func, lines 106-110 and 160-169: fork and the parent's side up to  *)
(* its first call that concerns another process.                           *)
Fork(p, r) ==
  \/ /\ proc' = [proc EXCEPT ![p] = Finish(fprintf(r))]      \* fork() == -1: "fork error"
  \/ /\ FreePids # {}
     /\ LET c == CHOOSE x \in FreePids : \A y \in FreePids : x <= y
            child == [r EXCEPT !.ppid = p, !.pc = "child", !.pid = 0]
            parent == IF r.run_in_fg
                        THEN [r EXCEPT !.pid = c, !.pc = "tcsetpgrp"]
                        ELSE Finish([r EXCEPT !.pid = c,
                                              !.num_bprocesses = @ + 1])
        IN proc' = [proc EXCEPT ![p] = parent, ![c] = child]

(* One pass of the loop body from fgets to the first call that blocks or   *)
(* concerns another process: lines 218-259.                                *)
ReadLine(p, line) ==
  /\ Interp(proc, p) /\ proc[p].pc = "read" /\ CanReadLine(p)
  /\ \E r \in Redirected(proc[p], line) :
       IF r.pc # "read" THEN proc' = Terminate(proc, p, r.pc)
       ELSE LET fundex == lookup(tokens_get_token(line, 0))
            IN CASE fundex = 0 -> proc' = [proc EXCEPT ![p] = Finish(cmd_help(r))]
                 [] fundex = 1 -> proc' = cmd_exit([proc EXCEPT ![p] = r], p)
                 [] fundex = 2 -> proc' = [proc EXCEPT ![p] = Finish(cmd_pwd(r))]
                 [] fundex = 3 -> proc' = [proc EXCEPT ![p] = Finish(cmd_cd(r))]
                 [] fundex = 4 -> proc' = [proc EXCEPT ![p] = [r EXCEPT !.pc = "cmd_wait"]]
                 [] OTHER -> Fork(p, r)
  /\ UNCHANGED tty_pgrp

(* fgets returns NULL: main returns 0.                                     *)
ReadEnd(p) ==
  /\ Interp(proc, p) /\ proc[p].pc = "read" /\ CanReadEnd(p)
  /\ proc' = Terminate(proc, p, "eof")
  /\ UNCHANGED tty_pgrp

(* cmd_wait, lines 97-100: one wait(NULL) and the decrement.               *)
CmdWaitReap(p) ==
  /\ Interp(proc, p) /\ proc[p].pc = "cmd_wait" /\ proc[p].num_bprocesses > 0
  /\ \E P \in Wait(proc, p) : proc' = [P EXCEPT ![p].num_bprocesses = @ - 1]
  /\ UNCHANGED tty_pgrp

(* cmd_wait's loop ends and main finishes the line.                        *)
CmdWaitReturn(p) ==
  /\ Interp(proc, p) /\ proc[p].pc = "cmd_wait" /\ proc[p].num_bprocesses <= 0
  /\ proc' = [proc EXCEPT ![p] = Finish(@)]
  /\ UNCHANGED tty_pgrp

(* exec_func line 162.                                                     *)
ParentTcsetpgrp(p) ==
  /\ Interp(proc, p) /\ proc[p].pc = "tcsetpgrp"
  /\ tty_pgrp' \in Tcsetpgrp(proc, tty_pgrp, p, STDIN_FILENO, proc[p].pid)
  /\ proc' = [proc EXCEPT ![p].pc = "fg_wait"]

(* exec_func lines 163-164: wait(NULL) returns, the terminal is taken back *)
(* with getpid(), and main finishes the line.                              *)
ParentWait(p) ==
  /\ Interp(proc, p) /\ proc[p].pc = "fg_wait"
  /\ \E P \in Wait(proc, p) :
       /\ tty_pgrp' \in Tcsetpgrp(P, tty_pgrp, p, STDIN_FILENO, p)
       /\ proc' = [P EXCEPT ![p] = Finish(@)]

(* strtok(env_path, ":"): the non-empty pieces between separators.         *)
RECURSIVE Split(_, _)
Split(s, sep) ==
  IF s = <<>> THEN <<>>
  ELSE LET rest == Split(Tail(s), sep)
       IN IF Head(s) = sep THEN (IF rest # <<>> /\ Head(rest) = <<>> THEN rest ELSE <<<<>>>> \o rest)
          ELSE IF rest = <<>> THEN <<<<Head(s)>>>>
          ELSE <<<<Head(s)>> \o Head(rest)>> \o Tail(rest)

strtok(s, sep) == SelectSeq(Split(s, sep), LAMBDA t : t # <<>>)

(* Lines 135-159: the paths handed to execv, in order.                     *)
ExecCandidates(path) ==
  IF Head(path) = "/" THEN <<path>>
  ELSE LET dirs == strtok(PATH, ":")
       IN [i \in 1..Len(dirs) |-> dirs[i] \o <<"/">> \o path]

ExecSucceeds(path) ==
  \E i \in 1..Len(ExecCandidates(path)) : ExecCandidates(path)[i] \in Executables

(* An argv that is every token of the line.                                *)
ArgvOfEveryToken(r) ==
  LET arg_len == tokens_get_length(r.tokens)
  IN [i \in 1..(arg_len + 1) |->
        IF i <= arg_len THEN tokens_get_token(r.tokens, i - 1) ELSE NULL]

(* The first candidate execv accepts.                                      *)
Resolve(path) ==
  LET cand == ExecCandidates(path)
  IN cand[CHOOSE i \in 1..Len(cand) :
            cand[i] \in Executables /\ \A j \in 1..(i - 1) : cand[j] \notin Executables]

(* Lines 123-133: argv without the redirection operator and its file, and  *)
(* the terminating NULL.                                                   *)
Argv(r) ==
  LET arg_len == tokens_get_length(r.tokens) -
                   (IF r.redirect_check \in {T_gt, T_lt} THEN 2 ELSE 0)
  IN [i \in 1..(arg_len + 1) |->
        IF i <= arg_len THEN tokens_get_token(r.tokens, i - 1) ELSE NULL]

(* The process image after a successful execv: the C variables are gone;  *)
(* run_in_fg stays as the record of how the job was launched.              *)
Exec(r) ==
  [Unborn EXCEPT !.state = "run", !.image = "prog", !.pc = "prog",
                 !.ppid = r.ppid, !.pgid = r.pgid, !.sig = r.sig,
                 !.run_in_fg = r.run_in_fg, !.argv = Argv(r),
                 !.exe = Resolve(tokens_get_token(r.tokens, 0))]

(* Lines 112-121: the child's own group (getpid() is c), the signals back  *)
(* to default.                                                             *)
ChildSetup(r, c) == [r EXCEPT !.pgid = c, !.sig = "DFL"]

(* The child's side of exec_func, lines 111-159 and 169: its own group,    *)
(* the signals, exec; when no exec succeeds the error is printed and       *)
(* exec_func returns 1 into main's loop.  With no token 0                  *)
(* strncpy(temp, NULL, 1) is undefined: SIGSEGV, or a failed exec.  On the *)
(* PATH branch token_cpy, temp2 and full_path (lines 147-154) are each one *)
(* byte shorter than the string copied into them: the writes past their    *)
(* ends are undefined, harmless where the arrays have slack behind them,   *)
(* a fault otherwise, and the first of them comes before the first execv.  *)
ChildRun(c) ==
  /\ Interp(proc, c) /\ proc[c].pc = "child"
  /\ LET r == ChildSetup(proc[c], c)
         path == tokens_get_token(r.tokens, 0)
     IN \/ proc' = [proc EXCEPT ![c] = IF path # NULL /\ ExecSucceeds(path)
                                         THEN Exec(r) ELSE Finish(fprintf(r))]
        \/ /\ path = NULL
           /\ proc' = Terminate([proc EXCEPT ![c] = r], c, "segv_strncpy")
        \/ /\ path # NULL /\ Head(path) # "/" /\ strtok(PATH, ":") # <<>>
           /\ proc' = Terminate([proc EXCEPT ![c] = r], c, "segv_strcpy")
  /\ UNCHANGED tty_pgrp

(* An exec'd program ends.                                                 *)
ProgExit(c) ==
  /\ Live(proc, c) /\ proc[c].image = "prog"
  /\ proc' = Terminate(proc, c, "exit")
  /\ UNCHANGED tty_pgrp

(* The terminal turns an interrupt key into a signal for its foreground    *)
(* group: every member with the default disposition ends.                  *)
Interrupt ==
  LET hit == {q \in Pids : Live(proc, q) /\ proc[q].pgid = tty_pgrp /\ proc[q].sig = "DFL"}
  IN /\ hit # {}
     /\ proc' = TerminateAll(proc, hit, "signal")
     /\ UNCHANGED tty_pgrp

(* init_shell and the state main starts in.  The launcher decides whether  *)
(* the shell leads its own group (pgid = pid) or stays in the launcher's   *)
(* (LauncherPgid), and whether descriptor 0 is the terminal.  Lines        *)
(* 192-193 leave only once the shell's group is the foreground group;      *)
(* line 199 then calls tcsetpgrp with getpid().                            *)
LauncherPgid == 0

Shell0(in, out, g) ==
  LET r == [Unborn EXCEPT !.state = "run", !.image = "shell", !.pc = "read",
                          !.pgid = g, !.fds = <<in, out, "ERR">>,
                          !.shell_is_interactive = (in = "TTY")]
  IN IF r.shell_is_interactive THEN fprintf(r) ELSE r      \* lines 215-216

Init ==
  \E in \in {"TTY", "IN"}, out \in {"TTY", "OUT"}, g \in {ShellPid, LauncherPgid} :
    /\ proc = [q \in Pids |-> IF q = ShellPid THEN Shell0(in, out, g) ELSE Unborn]
    /\ tty_pgrp \in (IF in = "TTY" THEN Tcsetpgrp(proc, g, ShellPid, STDIN_FILENO, ShellPid)
                     ELSE {g})

(* What the processes do besides reading a line: the launcher's steps,    *)
(* and cmd_wait's.                                                         *)
Launch ==
  \/ \E p \in Pids : ReadEnd(p)
  \/ \E p \in Pids : ParentTcsetpgrp(p)
  \/ \E p \in Pids : ParentWait(p)
  \/ \E c \in Pids : ChildRun(c)
  \/ \E c \in Pids : ProgExit(c)
  \/ Interrupt

Reap ==
  \/ \E p \in Pids : CmdWaitReap(p)
  \/ \E p \in Pids : CmdWaitReturn(p)

(* Spec: the lines about builtins, processes and jobs.                     *)
JobLines ==
  { <<T_help>>, <<T_exit>>, <<T_pwd>>, <<T_cd>>, <<T_wait>>,
    <<T_ls>>, <<T_ls, T_amp>>, <<T_no>>, <<T_no, T_amp>> }

Next ==
  \/ \E p \in Pids, line \in JobLines : ReadLine(p, line)
  \/ Launch
  \/ Reap

Spec == Init /\ [][Next]_vars

(* SpecExec: as Spec, with commands that all resolve to an executable, so  *)
(* that no exec fails for want of a program.                               *)
ExecLines ==
  { <<T_help>>, <<T_exit>>, <<T_pwd>>, <<T_cd>>, <<T_wait>>,
    <<T_ls>>, <<T_ls, T_amp>>, <<T_absls>> }

NextExec ==
  \/ \E p \in Pids, line \in ExecLines : ReadLine(p, line)
  \/ Launch
  \/ Reap

SpecExec == Init /\ [][NextExec]_vars

(* SpecRedir: the lines with a redirection, in the foreground and in the   *)
(* background, to files that can and cannot be opened.                     *)
RedirLines ==
  { <<T_help>>, <<T_ls>>,
    <<T_ls, T_gt, T_f>>, <<T_ls, T_lt, T_f>>, <<T_pwd, T_gt, T_f>>,
    <<T_ls, T_gt, T_nofile>>, <<T_ls, T_lt, T_nofile>>,
    <<T_ls, T_gt, T_amp>>, <<T_no, T_gt, T_f>> }

NextRedir ==
  \/ \E p \in Pids, line \in RedirLines : ReadLine(p, line)
  \/ Launch

SpecRedir == Init /\ [][NextRedir]_vars

(* SpecShort: the blank line and the single-token lines.                   *)
ShortLines ==
  { <<>>, <<T_help>>, <<T_Exit>>, <<T_exit>>, <<T_ls>>, <<T_amp>>, <<T_wait>> }

NextShort ==
  \/ \E p \in Pids, line \in ShortLines : ReadLine(p, line)
  \/ Launch
  \/ Reap

SpecShort == Init /\ [][NextShort]_vars

(* SpecJobs: foreground and background jobs, wait and exit, and one        *)
(* command that no PATH directory holds.                                   *)
JobsLines ==
  { <<T_help>>, <<T_exit>>, <<T_wait>>, <<T_ls>>, <<T_ls, T_amp>>, <<T_no>> }

NextJobs ==
  \/ \E p \in Pids, line \in JobsLines : ReadLine(p, line)
  \/ Launch
  \/ Reap

SpecJobs == Init /\ [][NextJobs]_vars

(* SpecDispatch: every registry name, a name that differs from one in case *)
(* only, and an external command in the foreground and in the background.  *)
DispatchLines ==
  { <<T_help>>, <<T_exit>>, <<T_pwd>>, <<T_cd>>, <<T_wait>>, <<T_Exit>>,
    <<T_ls>>, <<T_ls, T_amp>> }

NextDispatch ==
  \/ \E p \in Pids, line \in DispatchLines : ReadLine(p, line)
  \/ Launch
  \/ Reap

SpecDispatch == Init /\ [][NextDispatch]_vars

(* SpecCd: cd with no argument, with one that is and one that is not a    *)
(* directory, and with two, among lines that launch jobs.                  *)
CdLines ==
  { <<T_cd>>, <<T_cd, T_dir>>, <<T_cd, T_nodir>>, <<T_cd, T_dir, T_nodir>>,
    <<T_pwd>>, <<T_exit>>, <<T_wait>>, <<T_ls>>, <<T_ls, T_amp>> }

NextCd ==
  \/ \E p \in Pids, line \in CdLines : ReadLine(p, line)
  \/ Launch
  \/ Reap

SpecCd == Init /\ [][NextCd]_vars

(* SpecArgv: commands with an argument, with a redirection, with "&", and  *)
(* with a ">" that is not second to last.                                  *)
ArgvLines ==
  { <<T_ls, T_f>>,
    <<T_ls, T_gt, T_f>>, <<T_ls, T_lt, T_f>>, <<T_ls, T_gt, T_amp>>,
    <<T_ls, T_gt, T_f, T_amp>>, <<T_absls, T_f, T_gt, T_f>> }

NextArgv ==
  \/ \E p \in Pids, line \in ArgvLines : ReadLine(p, line)
  \/ Launch

SpecArgv == Init /\ [][NextArgv]_vars

(* SpecPath: names found in the second PATH directory only, in both, in   *)
(* none, and names that begin with "/".                                    *)
PathLines ==
  { <<T_ls>>, <<T_sh>>, <<T_sh, T_amp>>, <<T_no>>,
    <<T_absls>>, <<T_bsh>>, <<T_absno>> }

NextPath ==
  \/ \E p \in Pids, line \in PathLines : ReadLine(p, line)
  \/ Launch

SpecPath == Init /\ [][NextPath]_vars

(* SpecStdio: the printing builtins with and without "> f", exit, and a    *)
(* command to launch.                                                      *)
StdioLines ==
  { <<T_help>>, <<T_pwd>>, <<T_help, T_gt, T_f>>, <<T_pwd, T_gt, T_f>>,
    <<T_exit>>, <<T_ls>> }

NextStdio ==
  \/ \E p \in Pids, line \in StdioLines : ReadLine(p, line)
  \/ Launch

SpecStdio == Init /\ [][NextStdio]_vars

(* ------------------------------ claims -------------------------------- *)

(* C1: a child whose exec failed never returns into the read loop: only    *)
(* the process that started main is ever at fgets.                         *)
C1_OnlyTheShellReads ==
  \A p \in Pids : Interp(proc, p) /\ proc[p].pc = "read" => p = ShellPid

(* C2: when the parent's foreground wait returns, the child it spawned for *)
(* this command (exec_func's pid) has changed state.                       *)
C2_ForegroundWaitIsForItsChild ==
  [][\A p \in Pids :
       Interp(proc, p) /\ proc[p].pc = "fg_wait" /\ Interp(proc', p) /\ proc'[p].pc = "read"
         => proc'[proc[p].pid].state # "run"]_vars

(* C3: whenever the interactive shell is at fgets for a further line, the  *)
(* terminal's foreground group is the shell's own group.                   *)
C3_ShellHoldsTerminalAtPrompt ==
  LET sh == proc[ShellPid]
  IN Interp(proc, ShellPid) /\ sh.pc = "read" /\ OnTty(sh) /\ sh.sig = "IGN"
       => tty_pgrp = sh.pgid

(* C4: while the parent waits for a foreground child that is still         *)
(* running, the terminal's foreground group is that child's group.         *)
C4_ChildHoldsTerminalWhileWaited ==
  \A p \in Pids :
    Interp(proc, p) /\ proc[p].pc = "fg_wait" /\ OnTty(proc[p]) /\ Live(proc, proc[p].pid)
      => tty_pgrp = proc[proc[p].pid].pgid

(* A background job that has not ended: a process launched with            *)
(* run_in_fg == 0 that is still on its way to exec or running its program. *)
UnfinishedBgJob(P, c) ==
  P[c].state = "run" /\ P[c].pc \in {"child", "prog"} /\ ~P[c].run_in_fg

(* c was launched before p could run `wait`: by p itself, or by p's parent *)
(* before it forked p (pids are handed out in order).                      *)
LaunchedBefore(P, c, p) ==
  \/ P[c].ppid = p
  \/ P[p].ppid # 0 /\ P[c].ppid = P[p].ppid /\ c < p

(* C5: when cmd_wait returns, num_bprocesses is 0 and every background job *)
(* launched before the `wait` has ended.                                   *)
C5_WaitReturnsAfterAllJobs ==
  [][\A p \in Pids :
       Interp(proc, p) /\ proc[p].pc = "cmd_wait" /\ Interp(proc', p) /\ proc'[p].pc = "read"
         => /\ proc'[p].num_bprocesses = 0
            /\ \A c \in Pids : LaunchedBefore(proc', c, p) => ~UnfinishedBgJob(proc', c)]_vars

(* p forks c in this step.                                                 *)
Spawned(p, c) ==
  proc[c].state = "unborn" /\ proc'[c].state = "run" /\ proc'[c].ppid = p

(* p is inside cmd_wait's loop before and after this step.                 *)
InCmdWait(p) == proc[p].pc = "cmd_wait" /\ proc'[p].pc = "cmd_wait"

(* p reaps one of its children in this step.                               *)
Reaps(p) == \E c \in Zombies(proc, p) : proc'[c].state = "reaped"

C7_StandardSlotsRestored ==
  \A p \in Pids :
    Interp(proc, p) /\ proc[p].pc = "read"
      => proc[p].fds[STDOUT_FILENO + 1] # "FILE" /\ proc[p].fds[STDIN_FILENO + 1] # "FILE"

(* C8: a redirection file that cannot be opened never reaches fileno as a  *)
(* NULL handle: no process ends in fileno(NULL).                           *)
C8_NullFileNeverUsed ==
  \A p \in Pids : proc[p].cause # "segv_fileno"

(* C9: no line is fatal to the interpreter except exit (and the end of     *)
(* input): the process that started main never ends in a fault.            *)
C9_NoLineIsFatal ==
  proc[ShellPid].cause \notin {"segv_strcmp", "segv_strncpy", "segv_fileno"}

(* C10: a terminal-generated interrupt never ends the interpreter.         *)
C10_InterruptSparesTheShell ==
  proc[ShellPid].cause # "signal"

(* C11: the step in which an interpreter forks a background child ends     *)
(* with that interpreter back at fgets: it has reaped nobody, the          *)
(* terminal's foreground group is as it was, and the child is running.     *)
C11_BackgroundNeverBlocks ==
  [][\A p, c \in Pids :
       Interp(proc, p) /\ Spawned(p, c) /\ ~proc'[c].run_in_fg
         => /\ Interp(proc', p) /\ proc'[p].pc = "read"
            /\ tty_pgrp' = tty_pgrp
            /\ \A d \in Pids : proc[d].state = "zombie" => proc'[d].state = "zombie"
            /\ proc'[c].state = "run"]_vars

(* C11's case: an interpreter at fgets whose background child has not      *)
(* ended.                                                                  *)
C11_Witness ==
  \E p, c \in Pids :
    /\ Interp(proc, p) /\ proc[p].pc = "read" /\ proc[p].num_bprocesses > 0
    /\ proc[c].ppid = p /\ UnfinishedBgJob(proc, c)

(* The names of the registry, and the first tokens a line can have (NULL   *)
(* for the blank line).                                                    *)
RegistryNames == {cmd_table[i] : i \in 1..Len(cmd_table)}
FirstTokens == {tokens_get_token(line, 0) : line \in Lines}

(* C12: lookup finds an index exactly for the tokens that equal a registry *)
(* name character by character, and it is the first index with that name;  *)
(* a line is in the launcher only if its first token is no registry name,  *)
(* and in cmd_wait only if its first token is "wait".                      *)
C12_DispatchIsExactMatch ==
  /\ \A t \in FirstTokens : lookup(t) >= 0 <=> t \in RegistryNames
  /\ \A t \in FirstTokens \cap RegistryNames :
       /\ cmd_table[lookup(t) + 1] = t
       /\ \A j \in 1..lookup(t) : cmd_table[j] # t
  /\ \A p \in Pids :
       /\ Interp(proc, p) /\ proc[p].pc \in {"child", "tcsetpgrp", "fg_wait"}
            => tokens_get_token(proc[p].tokens, 0) \notin RegistryNames
       /\ Interp(proc, p) /\ proc[p].pc = "cmd_wait"
            => tokens_get_token(proc[p].tokens, 0) = T_wait

(* C12's case: the line `Exit` has been handed to the launcher, whose      *)
(* child is about to exec it, and the interpreter that read it is alive.   *)
C12_Witness ==
  \E c \in Pids :
    /\ Interp(proc, c) /\ proc[c].pc = "child" /\ proc[c].tokens = <<T_Exit>>
    /\ Interp(proc, proc[c].ppid)

(* C13: a `cd` line always leaves its interpreter at fgets; the working    *)
(* directory changes only when the line has exactly one argument and that  *)
(* argument is a directory, and then it becomes that directory.            *)
C13_CdTakesExactlyOneArgument ==
  [][\A p \in Pids, line \in CdLines :
       tokens_get_token(line, 0) = T_cd /\ ReadLine(p, line)
         => /\ Interp(proc', p) /\ proc'[p].pc = "read"
            /\ proc'[p].cwd = IF tokens_get_length(line) = 2
                                   /\ tokens_get_token(line, 1) \in Directories
                                THEN tokens_get_token(line, 1)
                                ELSE proc[p].cwd]_vars

(* C14: when a child execs, the argv it hands over is the line's tokens in *)
(* order followed by NULL, without the last two tokens when the second to  *)
(* last is ">" or "<", and with every token otherwise.                     *)
C14_ArgvDropsOnlyTheRedirection ==
  [][\A c \in Pids :
       Interp(proc, c) /\ proc[c].pc = "child" /\ Live(proc', c) /\ proc'[c].image = "prog"
         => LET t == proc[c].tokens
                n == Len(t)
                cut == n >= 2 /\ t[n - 1] \in {T_gt, T_lt}
            IN proc'[c].argv = SubSeq(t, 1, IF cut THEN n - 2 ELSE n) \o <<NULL>>]_vars

(* C14's case: a program launched by `ls > &` (the only background line    *)
(* whose argv is the command alone) runs with the operator and the file    *)
(* name cut off, beside one launched with every token of its line.         *)
C14_Witness ==
  \E c, d \in Pids :
    /\ Live(proc, c) /\ proc[c].image = "prog"
    /\ ~proc[c].run_in_fg /\ proc[c].argv = <<T_ls, NULL>>
    /\ Live(proc, d) /\ proc[d].image = "prog"
    /\ proc[d].argv = <<T_ls, T_gt, T_f, T_amp, NULL>>

(* The directories of PATH, left to right, and the paths a name stands    *)
(* for: itself when it begins with "/", each directory + "/" + name        *)
(* otherwise.                                                              *)
PathDirs == << <<"/", "u">>, <<"/", "b">> >>
Candidates(name) ==
  IF name[1] = "/" THEN <<name>>
  ELSE [i \in 1..Len(PathDirs) |-> PathDirs[i] \o <<"/">> \o name]

(* C15: the step a child takes from fork's return to exec or to the error  *)
(* message ends in the program of the first candidate that is executable,  *)
(* when there is one, and in the error message, with no program loaded,    *)
(* when there is none.                                                     *)
C15_ResolutionFollowsPath ==
  [][\A c \in Pids :
       /\ Interp(proc, c) /\ proc[c].pc = "child"
       /\ tokens_get_token(proc[c].tokens, 0) # NULL
       /\ ~(Interp(proc', c) /\ proc'[c].pc = "child")
       => LET cand == Candidates(tokens_get_token(proc[c].tokens, 0))
              hits == {i \in 1..Len(cand) : cand[i] \in Executables}
          IN IF hits = {}
               THEN Interp(proc', c) /\ proc'[c].pc = "read"
               ELSE /\ Live(proc', c) /\ proc'[c].image = "prog"
                    /\ proc'[c].exe = cand[CHOOSE i \in hits : \A j \in hits : i <= j]]_vars

(* p reads an external command and fork fails: the line is handed to      *)
(* exec_func, no child appears, and p goes on.                             *)
ForkFails(p, Ls) ==
  /\ \E line \in Ls : lookup(tokens_get_token(line, 0)) < 0 /\ ReadLine(p, line)
  /\ \A c \in Pids : ~Spawned(p, c)
  /\ Interp(proc', p)

(* C16: a line whose fork fails leaves its interpreter at fgets with       *)
(* nobody reaped, the terminal's foreground group and num_bprocesses as    *)
(* they were, and descriptors 0 and 1 on the files they were on before the *)
(* line.                                                                   *)
C16_ForkFailureSkipsTheCommand ==
  [][\A p \in Pids :
       ForkFails(p, RedirLines \cup JobLines)
         => /\ proc'[p].pc = "read"
            /\ tty_pgrp' = tty_pgrp
            /\ proc'[p].num_bprocesses = proc[p].num_bprocesses
            /\ \A d \in Pids : proc[d].state = "zombie" => proc'[d].state = "zombie"
            /\ proc'[p].fds[STDIN_FILENO + 1] = proc[p].fds[STDIN_FILENO + 1]
            /\ proc'[p].fds[STDOUT_FILENO + 1] = proc[p].fds[STDOUT_FILENO + 1]]_vars

(* C17: the step in which an interpreter reads `exit` ends that            *)
(* interpreter, whatever num_bprocesses is; every other process that was   *)
(* running is still running afterwards, and the children that had ended    *)
(* are not reaped by the interpreter (they go to init with it gone).  A    *)
(* process that has ended takes no further step.                           *)
C17_ExitEndsTheShellAtOnce ==
  [][\A p \in Pids :
       /\ ReadLine(p, <<T_exit>>)
            => /\ ~Live(proc', p) /\ proc'[p].cause = "exit"
               /\ \A c \in Pids \ {p} :
                    /\ Live(proc, c) => Live(proc', c) /\ proc'[c].pc = proc[c].pc
                    /\ proc'[c].cause = proc[c].cause
       /\ ~Live(proc, p) /\ proc[p].state # "unborn"
            => ~Live(proc', p) /\ proc'[p].cause = proc[p].cause]_vars

(* C17's case: the shell has ended by `exit` while num_bprocesses was not  *)
(* 0, and its background job is still running.                             *)
C17_Witness ==
  /\ proc[ShellPid].cause = "exit" /\ ~Live(proc, ShellPid)
  /\ \E c \in Pids : UnfinishedBgJob(proc, c) /\ proc[c].image = "prog"

(* C18: text that a builtin printed while descriptor 1 was the            *)
(* redirection file is never written to any other file: none of it reaches *)
(* the standard output the shell started with.                             *)
C18_RedirectedTextStaysInTheFile ==
  \A p \in Pids : ~proc[p].strayed

(* C19: whenever the process that started main is at fgets, its           *)
(* num_bprocesses is the number of its children that have not been reaped. *)
C19_CounterIsUnreapedChildren ==
  Interp(proc, ShellPid) /\ proc[ShellPid].pc = "read"
    => proc[ShellPid].num_bprocesses = Cardinality(Children(proc, ShellPid))

(* C19's case: the foreground wait has reaped another child than the one   *)
(* it launched and returned; the shell is at fgets, the foreground child   *)
(* is still running and is the one child the counter stands for.           *)
C19_Witness ==
  /\ Interp(proc, ShellPid) /\ proc[ShellPid].pc = "read"
  /\ proc[ShellPid].num_bprocesses = 1
  /\ \E c, d \in Pids :
       /\ proc[c].ppid = ShellPid /\ Live(proc, c) /\ proc[c].image = "prog"
       /\ proc[c].run_in_fg
       /\ d # c /\ proc[d].ppid = ShellPid /\ proc[d].state = "reaped"

(* C20: whenever an interpreter is at fgets, its open descriptors are the  *)
(* standard ones it started with and no others.                            *)
C20_NoDescriptorOutlivesItsLine ==
  \A p \in Pids :
    Interp(proc, p) /\ proc[p].pc = "read" => Len(proc[p].fds) = StdSlots

====
